---------------------------- MODULE Spec2Model ----------------------------
(***************************************************************************)
(* A model of src/main.js: a step-cadence estimator.  The file holds two   *)
(* closures (variants) of the same program:                                *)
(*   variant 1 (lines 1-191):   MIN_STEP_INTERVAL 300 ms, prominence gate, *)
(*                              span-based computeCadence, five bands;     *)
(*   variant 2 (lines 192-351): MIN_STEP_INTERVAL 250 ms, no prominence    *)
(*                              gate, density-based computeCadence, three  *)
(*                              bands.                                     *)
(* The variable `variant` selects the closure; the state is that closure's *)
(* module-level variables plus the clock (Date.now()), the interval timer, *)
(* what updateUI last wrote, and a few history variables.                  *)
(*                                                                         *)
(* Numbers.  Timestamps are integers (ms).  Date.now() of a real run is    *)
(* beyond the integers TLC computes with, so the clock starts at 0 or at   *)
(* LateStart; the code reads the clock only through differences and        *)
(* through the comparison with the initial 0 of lastStepTs / lastPeakTime. *)
(* A cadence is an exact fraction <<n, d>> (d = 0: the result of a         *)
(* division by zero, <<0,0>> NaN and <<1,0>> Infinity).  An acceleration   *)
(* is a fixed-point number in 1/100 m/s^2, <<"num", v>>, or <<"nan", 0>>;  *)
(* the low-pass product is rounded to the nearest unit and the square root *)
(* is the integer square root.                                             *)
(***************************************************************************)
EXTENDS Integers, Sequences, FiniteSets

VARIABLES
    variant,         \* 1 or 2: which closure of main.js runs
    now,             \* Date.now()
    timerDue,        \* earliest time the setInterval callback fires next
    lastStepTs,
    stepTimestamps,
    gravity,         \* <<x, y, z>>
    lastFiltered,
    prevFiltered,    \* variant 1 only
    lastPeakTime,
    cadenceHistory,
    ui,              \* what updateUI wrote: [text, label]
    calls,           \* history: onStep calls since construction / last resetAll,
                     \*   each [ts, last (lastStepTs it saw), ok (recorded)]
    pushed,          \* history: values pushed since construction / last resetAll
    lastOp,          \* history: the callback that ran last
    nAdv,            \* history: clock advances so far
    nMotion,         \* history: devicemotion events so far
    fed              \* history, kept by SpecFilter: the magnitudes handleMotion
                     \*   computed, oldest first

vars == <<variant, now, timerDue, lastStepTs, stepTimestamps, gravity,
          lastFiltered, prevFiltered, lastPeakTime, cadenceHistory, ui,
          calls, pushed, lastOp, nAdv, nMotion, fed>>

motionVars == <<gravity, lastFiltered, prevFiltered, lastPeakTime>>

-----------------------------------------------------------------------------
(* Bounds of the model *)

\* Spec
MaxAdvances == 2
MaxEvents == 2
MaxMotion == 2
\* SpecTiming
TimingAdvances == 3
TimingEvents == 3
\* SpecSteady
SteadyMaxTime == 38000
\* a clock advance shorter than either MIN_STEP_INTERVAL
ShortGap == 200
\* a start time later than either MIN_STEP_INTERVAL
LateStart == 1000
\* SpecClassify: cadences 0, 1/2, 1, ... up to MaxTestRate, MaxPresented of them
MaxTestRate == 130
MaxPresented == 1
\* SpecExample: steps ExampleGap apart
ExampleGap == 1000
ExampleAdvances == 3
ExampleEvents == 3
\* SpecFilter
FilterSamples == 4
FilterAdvances == 2
\* SpecQuiet: steps are tried up to QuietFrom, the clock runs to QuietMaxTime
QuietEvents == 3
QuietFrom == 2000
QuietMaxTime == 8000

-----------------------------------------------------------------------------
(* Program constants *)

MIN_STEP_INTERVAL_1 == 300
MIN_STEP_INTERVAL_2 == 250
MIN_STEP_INTERVAL == IF variant = 1 THEN MIN_STEP_INTERVAL_1 ELSE MIN_STEP_INTERVAL_2

\* 1.2 and 1.0 m/s^2, 0.5 m/s^2, in 1/100 m/s^2
PEAK_THRESHOLD_1 == 120
PEAK_THRESHOLD_2 == 100
PEAK_THRESHOLD == IF variant = 1 THEN PEAK_THRESHOLD_1 ELSE PEAK_THRESHOLD_2
MIN_PEAK_PROMINENCE == 50

windowSeconds == 5
historyLength == 60
TickPeriod == 500

\* alpha = 0.8, in tenths
alphaTenths == 8

THRESHOLD_SONG1_END == 20
THRESHOLD_TRANS1_END == 40
THRESHOLD_SONG2_END == 100
THRESHOLD_TRANS2_END == 120
THRESHOLD_STATIONARY == 20
THRESHOLD_FAST == 110

-----------------------------------------------------------------------------
(* JavaScript values *)

Null == <<>>
Some(v) == <<v>>

\* Accelerations: fixed-point numbers and NaN
Num(v) == <<"num", v>>
NaN == <<"nan", 0>>
Undefined == <<"undefined", 0>>
JsNull == <<"null", 0>>
IsNaN(v) == v[1] = "nan"

\* ToNumber, as the arithmetic operators apply it: undefined -> NaN, null -> 0
ToNumber(c) ==
    IF c[1] = "num" THEN c
    ELSE IF c[1] = "null" THEN Num(0)
    ELSE NaN

RoundDiv(n, d) == (2 * n + d) \div (2 * d)

NumSub(a, b) == IF IsNaN(a) \/ IsNaN(b) THEN NaN ELSE Num(a[2] - b[2])
\* every comparison with NaN is false
NumLt(a, b) == ~IsNaN(a) /\ ~IsNaN(b) /\ a[2] < b[2]
NumLe(a, b) == ~IsNaN(a) /\ ~IsNaN(b) /\ a[2] <= b[2]
NumGt(a, b) == ~IsNaN(a) /\ ~IsNaN(b) /\ a[2] > b[2]

RECURSIVE SqrtIter(_, _, _)
SqrtIter(n, lo, hi) ==
    \* the largest r in lo..hi with r*r <= n (lo*lo <= n < (hi+1)*(hi+1))
    IF lo = hi THEN lo
    ELSE LET mid == (lo + hi + 1) \div 2
         IN IF mid * mid <= n THEN SqrtIter(n, mid, hi) ELSE SqrtIter(n, lo, mid - 1)

ISqrt(n) == SqrtIter(n, 0, 46340)

\* Cadences: exact fractions
RECURSIVE Gcd(_, _)
Gcd(a, b) == IF b = 0 THEN a ELSE Gcd(b, a % b)

Frac(n, d) ==
    \* n / d for n >= 0, d >= 0, in lowest terms; x/0 is Infinity, 0/0 is NaN
    IF d = 0 THEN (IF n = 0 THEN <<0, 0>> ELSE <<1, 0>>)
    ELSE LET g == Gcd(n, d) IN <<n \div g, d \div g>>

Zero == <<0, 1>>
IsFinite(r) == r[2] > 0
RateLe(r, s) == IsFinite(r) /\ IsFinite(s) /\ r[1] * s[2] <= s[1] * r[2]
RateLt(r, s) == IsFinite(r) /\ IsFinite(s) /\ r[1] * s[2] < s[1] * r[2]
\* r < k and r >= k for an integer k, as JavaScript compares (false on NaN)
RateBelow(r, k) == r[2] > 0 /\ r[1] < k * r[2]
RateAtLeast(r, k) == (r[2] > 0 /\ r[1] >= k * r[2]) \/ r = <<1, 0>>
\* Math.round of a finite cadence
MathRound(r) == (2 * r[1] + r[2]) \div (2 * r[2])

-----------------------------------------------------------------------------
(* Pure functions of the program *)

Last(s) == s[Len(s)]

\* (mutant) a cadence equal to a bound stays in the lower band
classify1Inclusive(cadence) ==
    IF RateBelow(cadence, THRESHOLD_SONG1_END) THEN "song1"
    ELSE IF RateBelow(cadence, THRESHOLD_TRANS1_END) THEN "trans1"
    ELSE IF RateBelow(cadence, THRESHOLD_SONG2_END) THEN "song2"
    ELSE IF RateBelow(cadence, THRESHOLD_TRANS2_END) \/ cadence = <<THRESHOLD_TRANS2_END, 1>>
         THEN "trans2"
    ELSE "song3"

\* variant 1, lines 53-68
classify1(cadence) ==
    IF RateBelow(cadence, THRESHOLD_SONG1_END) THEN "song1"
    ELSE IF RateBelow(cadence, THRESHOLD_TRANS1_END) THEN "trans1"
    ELSE IF RateBelow(cadence, THRESHOLD_SONG2_END) THEN "song2"
    ELSE IF RateBelow(cadence, THRESHOLD_TRANS2_END) THEN "trans2"
    ELSE "song3"

\* variant 2, lines 238-242
classify2(cadence) ==
    IF RateBelow(cadence, THRESHOLD_STATIONARY) THEN "stationary"
    ELSE IF RateAtLeast(cadence, THRESHOLD_FAST) THEN "fast"
    ELSE "walking"

classify(cadence) == IF variant = 1 THEN classify1(cadence) ELSE classify2(cadence)

\* (mutant) a falsy cadence, 0 included, is shown as "no data"
updateUIFalsy(cadence) ==
    IF cadence = Null \/ cadence = Some(Zero)
    THEN [text |-> Null, label |-> "initializing"]
    ELSE [text |-> IF IsFinite(cadence[1])
                   THEN Some(<<MathRound(cadence[1]), 1>>)
                   ELSE Some(cadence[1]),
          label |-> classify(cadence[1])]

\* updateUI(cadence): cadence is Null or Some(rate)
updateUI(cadence) ==
    IF cadence = Null
    THEN [text |-> Null, label |-> "initializing"]
    ELSE [text |-> IF IsFinite(cadence[1])
                   THEN Some(<<MathRound(cadence[1]), 1>>)
                   ELSE Some(cadence[1]),
          label |-> classify(cadence[1])]

\* (mutant) the entry at windowStart itself is dropped
keepRecentStrict(ts, windowStart) == ts > windowStart

\* (mutant) no timestamp is ever too old
keepRecentAlways(ts, windowStart) == TRUE

\* stepTimestamps.filter(ts => ts >= windowStart)
keepRecent(ts, windowStart) == ts >= windowStart

\* (mutant) nothing is pruned
pruneNothing(w, windowStart) == w

pruneWindow(w, windowStart) == SelectSeq(w, LAMBDA ts : keepRecent(ts, windowStart))

\* (mutant) the span formula without its count >= 2 guard
spanCadenceUnguarded(w) ==
    LET count == Len(w) IN
    IF count = 0 THEN Zero
    ELSE LET first == w[1]
             last == w[Len(w)]
         IN IF last - first < 0 THEN Zero
            ELSE Frac((count - 1) * 60000, last - first)

\* (mutant) the span formula counting events, not intervals
spanCadenceByCount(w) ==
    LET count == Len(w) IN
    IF count = 0 THEN Zero
    ELSE IF count >= 2
    THEN LET first == w[1]
             last == w[Len(w)]
         IN IF last - first <= 0 THEN Zero
            ELSE Frac(count * 60000, last - first)
    ELSE Frac(count * 60, windowSeconds)

\* variant 1, lines 84-94: the span-based rate of a pruned window
spanCadence(w) ==
    LET count == Len(w) IN
    IF count = 0 THEN Zero
    ELSE IF count >= 2
    THEN LET first == w[1]
             last == w[Len(w)]
         IN IF last - first <= 0 THEN Zero
            ELSE Frac((count - 1) * 60000, last - first)
    ELSE Frac(count * 60, windowSeconds)

\* (mutant) the division the wrong way round
densityCadenceInverted(w) ==
    LET count == Len(w) IN
    IF count = 0 THEN Zero
    ELSE Frac(windowSeconds * 60, count)

\* variant 2, lines 256-260: the density-based rate of a pruned window
densityCadence(w) ==
    LET count == Len(w) IN
    IF count = 0 THEN Zero
    ELSE Frac(count * 60, windowSeconds)

cadenceOf(w) == IF variant = 1 THEN spanCadence(w) ELSE densityCadence(w)

\* (mutant) the oldest slot is never dropped
pushHistoryNoShift(h, cadence) == Append(h, cadence)

\* pushHistory, as a function of the array
pushHistoryOf(h, cadence) ==
    LET h2 == Append(h, cadence)
    IN IF Len(h2) > historyLength THEN Tail(h2) ELSE h2

emptyHistory == [i \in 1..historyLength |-> Null]

\* (mutant) every call is recorded
onStepAlways(ts, last) == TRUE

\* (mutant) the gate only refuses a step back in time
onStepUngated(ts, last) == ~(ts - last < 0)

\* onStep's refractory gate: TRUE when ts is recorded
onStepAccepts(ts, last) == ~(ts - last < MIN_STEP_INTERVAL)

\* (mutant) the two weights exchanged
lowPassSwapped(g, a) ==
    IF IsNaN(g) \/ IsNaN(a) THEN NaN
    ELSE Num(RoundDiv((10 - alphaTenths) * g[2] + alphaTenths * a[2], 10))

\* g' = alpha * g + (1 - alpha) * a
lowPass(g, a) ==
    IF IsNaN(g) \/ IsNaN(a) THEN NaN
    ELSE Num(RoundDiv(alphaTenths * g[2] + (10 - alphaTenths) * a[2], 10))

magnitude(ax, ay, az) ==
    IF IsNaN(ax) \/ IsNaN(ay) \/ IsNaN(az) THEN NaN
    ELSE Num(ISqrt(ax[2] * ax[2] + ay[2] * ay[2] + az[2] * az[2]))

\* the peak conditions of handleMotion
isPeak1(mag) ==
    /\ NumLt(prevFiltered, lastFiltered)
    /\ NumGt(lastFiltered, Num(PEAK_THRESHOLD))
    /\ NumGt(NumSub(lastFiltered, prevFiltered), Num(MIN_PEAK_PROMINENCE))
    /\ NumLe(mag, lastFiltered)
    /\ (now - lastPeakTime) > MIN_STEP_INTERVAL

isPeak2(mag) ==
    /\ NumGt(lastFiltered, Num(PEAK_THRESHOLD))
    /\ NumLe(mag, lastFiltered)
    /\ (now - lastPeakTime) > MIN_STEP_INTERVAL

isPeak(mag) == IF variant = 1 THEN isPeak1(mag) ELSE isPeak2(mag)

-----------------------------------------------------------------------------
(* Inputs *)

\* ev.accelerationIncludingGravity: absent, or <<x, y, z>>
NoAccel == <<>>
MissingAxes == <<Undefined, Undefined, Undefined>>
NullAxes == <<JsNull, JsNull, JsNull>>
SampleA == <<Num(300), Num(400), Num(0)>>
Malformed == {NoAccel, MissingAxes, NullAxes}
MotionEvents == Malformed \cup {SampleA}

ClockSteps == {ShortGap, MIN_STEP_INTERVAL, windowSeconds * 1000}
InitTimes == {0, LateStart}

-----------------------------------------------------------------------------
(* The state after construction *)

Init ==
    /\ variant \in {1, 2}
    /\ now \in InitTimes
    /\ timerDue = now + TickPeriod
    /\ lastStepTs = 0
    /\ stepTimestamps = <<>>
    /\ gravity = <<Num(0), Num(0), Num(0)>>
    /\ lastFiltered = Num(0)
    /\ prevFiltered = Num(0)
    /\ lastPeakTime = 0
    /\ cadenceHistory = emptyHistory
    /\ ui = updateUI(Null)
    /\ calls = <<>>
    /\ pushed = <<>>
    /\ lastOp = "init"
    /\ nAdv = 0
    /\ nMotion = 0
    /\ fed = <<>>

-----------------------------------------------------------------------------
(* Operations *)

\* onStep(ts), lines 104-109 and 270-275
onStep(ts) ==
    LET ok == onStepAccepts(ts, lastStepTs) IN
    /\ lastStepTs' = IF ok THEN ts ELSE lastStepTs
    /\ stepTimestamps' = IF ok THEN Append(stepTimestamps, ts) ELSE stepTimestamps
    /\ calls' = Append(calls, [ts |-> ts, last |-> lastStepTs, ok |-> ok])

\* The clock moves on by d ms (non-decreasing)
Advance(d) ==
    /\ now' = now + d
    /\ nAdv' = nAdv + 1
    /\ lastOp' = "advance"
    /\ UNCHANGED <<variant, timerDue, lastStepTs, stepTimestamps, motionVars, fed,
                   cadenceHistory, ui, calls, pushed, nMotion>>

\* simulateStep, lines 162-164 and 322-324
SimulateStep ==
    /\ onStep(now)
    /\ lastOp' = "simulateStep"
    /\ UNCHANGED <<variant, now, timerDue, motionVars, fed, cadenceHistory, ui,
                   pushed, nAdv, nMotion>>

\* handleMotion(ev), lines 115-141 and 280-301
HandleMotion(ev) ==
    /\ lastOp' = "handleMotion"
    /\ nMotion' = nMotion + 1
    /\ UNCHANGED <<variant, now, timerDue, cadenceHistory, ui, pushed, nAdv>>
    /\ IF ev = NoAccel
       THEN UNCHANGED <<motionVars, lastStepTs, stepTimestamps, calls>>
       ELSE LET gx == lowPass(gravity[1], ToNumber(ev[1]))
                gy == lowPass(gravity[2], ToNumber(ev[2]))
                gz == lowPass(gravity[3], ToNumber(ev[3]))
                ax == NumSub(ToNumber(ev[1]), gx)
                ay == NumSub(ToNumber(ev[2]), gy)
                az == NumSub(ToNumber(ev[3]), gz)
                mag == magnitude(ax, ay, az)
            IN /\ gravity' = <<gx, gy, gz>>
               /\ IF isPeak(mag)
                  THEN lastPeakTime' = now /\ onStep(now)
                  ELSE UNCHANGED <<lastPeakTime, lastStepTs, stepTimestamps, calls>>
               /\ prevFiltered' = IF variant = 1 THEN lastFiltered ELSE prevFiltered
               /\ lastFiltered' = mag

\* the setInterval callback, lines 180-184 and 340-344:
\* computeCadence, updateUI, pushHistory
Tick ==
    /\ now >= timerDue
    /\ LET windowStart == now - windowSeconds * 1000
           w == pruneWindow(stepTimestamps, windowStart)
           cadence == cadenceOf(w)
       IN /\ stepTimestamps' = w
          /\ ui' = updateUI(Some(cadence))
          /\ cadenceHistory' = pushHistoryOf(cadenceHistory, Some(cadence))
          /\ pushed' = Append(pushed, Some(cadence))
    /\ timerDue' = now + TickPeriod
    /\ lastOp' = "tick"
    /\ UNCHANGED <<variant, now, lastStepTs, motionVars, fed, calls, nAdv, nMotion>>

\* (mutant) resetAll that leaves the event window alone
ResetAllKeepsWindow ==
    /\ cadenceHistory' = emptyHistory
    /\ ui' = updateUI(Null)
    /\ calls' = <<>>
    /\ pushed' = <<>>
    /\ lastOp' = "resetAll"
    /\ UNCHANGED <<variant, now, timerDue, lastStepTs, stepTimestamps, motionVars, fed,
                   nAdv, nMotion>>

\* (mutant) resetAll that also forgets the last accepted step
ResetAllClearsGate ==
    /\ stepTimestamps' = <<>>
    /\ lastStepTs' = 0
    /\ cadenceHistory' = emptyHistory
    /\ ui' = updateUI(Null)
    /\ calls' = <<>>
    /\ pushed' = <<>>
    /\ lastOp' = "resetAll"
    /\ UNCHANGED <<variant, now, timerDue, motionVars, fed, nAdv, nMotion>>

\* resetAll, lines 167-173 and 327-333
ResetAll ==
    /\ stepTimestamps' = <<>>
    /\ cadenceHistory' = emptyHistory
    /\ ui' = updateUI(Null)
    /\ calls' = <<>>
    /\ pushed' = <<>>
    /\ lastOp' = "resetAll"
    /\ UNCHANGED <<variant, now, timerDue, lastStepTs, motionVars, fed, nAdv, nMotion>>

-----------------------------------------------------------------------------
(* Spec: every interleaving of the callbacks, over a bounded run *)

Next ==
    \/ \E d \in ClockSteps : nAdv < MaxAdvances /\ Advance(d)
    \/ Len(calls) < MaxEvents /\ SimulateStep
    \/ \E ev \in MotionEvents :
          nMotion < MaxMotion /\ Len(calls) < MaxEvents /\ HandleMotion(ev)
                                /\ UNCHANGED fed
    \/ Tick
    \/ ResetAll

Spec == Init /\ [][Next]_vars

-----------------------------------------------------------------------------
(* SpecTiming: the clock, manual steps, ticks and resets, over a longer run *)

NextTiming ==
    \/ \E d \in ClockSteps : nAdv < TimingAdvances /\ Advance(d)
    \/ Len(calls) < TimingEvents /\ SimulateStep
    \/ Tick
    \/ ResetAll

SpecTiming == Init /\ [][NextTiming]_vars

-----------------------------------------------------------------------------
(* SpecSteady: a clock that moves in steps of MIN_STEP_INTERVAL; at every   *)
(* instant a step is injected, and then the timer fires if it is due;      *)
(* resets at any time.                                                     *)

SteppedNow == calls # <<>> /\ Last(calls).ts = now

NextSteady ==
    \/ /\ now + MIN_STEP_INTERVAL <= SteadyMaxTime
       /\ now < timerDue
       /\ SteppedNow
       /\ Advance(MIN_STEP_INTERVAL)
    \/ ~SteppedNow /\ SimulateStep
    \/ SteppedNow /\ Tick
    \/ ResetAll

SpecSteady == Init /\ [][NextSteady]_vars

-----------------------------------------------------------------------------
(* SpecClassify: the presentation half of the timer callback, updateUI and  *)
(* pushHistory, applied to cadences drawn from a bounded set                *)

TestRates == { Frac(n, d) : n \in 0..(2 * MaxTestRate), d \in {2} }

Present(cadence) ==
    /\ ui' = updateUI(Some(cadence))
    /\ cadenceHistory' = pushHistoryOf(cadenceHistory, Some(cadence))
    /\ pushed' = Append(pushed, Some(cadence))
    /\ lastOp' = "tick"
    /\ UNCHANGED <<variant, now, timerDue, lastStepTs, stepTimestamps, motionVars, fed,
                   calls, nAdv, nMotion>>

NextClassify ==
    \E r \in TestRates : Len(pushed) < MaxPresented /\ Present(r)

SpecClassify == Init /\ [][NextClassify]_vars

-----------------------------------------------------------------------------
(* SpecExample: manual steps ExampleGap or MIN_STEP_INTERVAL apart *)

ExampleSteps == {ExampleGap, MIN_STEP_INTERVAL}

NextExample ==
    \/ \E d \in ExampleSteps : nAdv < ExampleAdvances /\ Advance(d)
    \/ Len(calls) < ExampleEvents /\ SimulateStep
    \/ Tick
    \/ ResetAll

SpecExample == Init /\ [][NextExample]_vars

-----------------------------------------------------------------------------
(* SpecFilter: devicemotion samples and the clock.  The samples lie on one   *)
(* line through the origin, in multiples of FilterUnit, so that over         *)
(* FilterSamples updates the low-pass weights 4/5 and 1/5 and the square     *)
(* root are computed without rounding.                                       *)

RECURSIVE Pow(_, _)
Pow(b, k) == IF k = 0 THEN 1 ELSE b * Pow(b, k - 1)

FilterUnit == Pow(5, FilterSamples)
Along(c) == <<Num(3 * c * FilterUnit), Num(4 * c * FilterUnit), Num(0)>>
FilterInputs == {Along(0), Along(1), Along(2)}
FilterClock == {ShortGap, MIN_STEP_INTERVAL}

\* handleMotion(ev), with the magnitude it computed added to the history
Feed(ev) ==
    /\ HandleMotion(ev)
    /\ fed' = Append(fed, lastFiltered')

NextFilter ==
    \/ \E d \in FilterClock : nAdv < FilterAdvances /\ Advance(d)
    \/ \E ev \in FilterInputs : nMotion < FilterSamples /\ Feed(ev)

SpecFilter == Init /\ [][NextFilter]_vars

-----------------------------------------------------------------------------
(* SpecQuiet: manual steps until QuietFrom, then none; the interval timer    *)
(* fires whenever it is due (every TickPeriod) and the clock keeps running,  *)
(* as far as QuietMaxTime.                                                   *)

QuietAdvance ==
    /\ now < timerDue
    /\ now + TickPeriod <= QuietMaxTime
    /\ Advance(TickPeriod)

QuietStep ==
    /\ now <= QuietFrom
    /\ Len(calls) < QuietEvents
    /\ SimulateStep

NextQuiet ==
    \/ QuietAdvance
    \/ QuietStep
    \/ Tick

SpecQuiet ==
    Init /\ [][NextQuiet]_vars /\ WF_vars(QuietAdvance) /\ WF_vars(Tick)

-----------------------------------------------------------------------------
(* Claims *)

Accepted == SelectSeq(calls, LAMBDA c : c.ok)
Rate == Last(pushed)[1]

\* C1: in every reachable state, whatever the interleaving of samples,
\* manual steps, ticks and resets, stepTimestamps is in non-decreasing order,
\* consecutive entries are at least MIN_STEP_INTERVAL apart, and the newest
\* entry is the one onStep's gate let through last (lastStepTs).
C1_WindowSpaced ==
    /\ \A i \in 1..(Len(stepTimestamps) - 1) :
          /\ stepTimestamps[i] <= stepTimestamps[i + 1]
          /\ stepTimestamps[i + 1] - stepTimestamps[i] >= MIN_STEP_INTERVAL
    /\ stepTimestamps # <<>> => Last(stepTimestamps) = lastStepTs

\* a detected step and a manual step exactly MIN_STEP_INTERVAL later
C1_Witness ==
    /\ Len(stepTimestamps) = 2
    /\ stepTimestamps[1] = lastPeakTime
    /\ lastPeakTime > 0
    /\ stepTimestamps[2] - stepTimestamps[1] = MIN_STEP_INTERVAL
    /\ lastOp = "simulateStep"

\* C2 (as claimed): of the onStep calls since construction or the last reset,
\* (a) if the first has no accepted step before it or comes more than
\* MIN_STEP_INTERVAL after it, and every later one comes more than
\* MIN_STEP_INTERVAL after the call before it, every call is recorded;
\* (b) a call less than MIN_STEP_INTERVAL after the last accepted step is not
\* recorded.
C2_Original ==
    /\ ( /\ calls # <<>>
         /\ (calls[1].last = 0 \/ calls[1].ts - calls[1].last > MIN_STEP_INTERVAL)
         /\ \A i \in 2..Len(calls) : calls[i].ts - calls[i - 1].ts > MIN_STEP_INTERVAL )
       => \A i \in 1..Len(calls) : calls[i].ok
    /\ \A i \in 1..Len(calls) :
          (calls[i].last # 0 /\ calls[i].ts - calls[i].last < MIN_STEP_INTERVAL)
             => ~calls[i].ok

\* C3 (as claimed): in variant 2 (MIN_STEP_INTERVAL 250), steps injected at
\* t = 0 and t = 200 from the initial state: the first is recorded, the second
\* is not, and the window is <<0>>.
C3_Original ==
    ( /\ variant = 2
      /\ Len(calls) = 2
      /\ calls[1].ts = 0
      /\ calls[2].ts = 200 )
    => /\ calls[1].ok
       /\ ~calls[2].ok
       /\ stepTimestamps = <<0>>

\* the most events a pruned window can hold: one every MIN_STEP_INTERVAL over
\* the closed interval [now - windowSeconds*1000, now]
MaxCount == (windowSeconds * 1000) \div MIN_STEP_INTERVAL + 1

SubWindows(w) ==
    { SelectSeq([i \in 1..Len(w) |-> <<w[i], i \in keep>>], LAMBDA e : e[2])
        : keep \in SUBSET (1..Len(w)) }
Stamps(es) == [i \in 1..Len(es) |-> es[i][1]]
InWindow(w) == w = <<>> \/ Last(w) - w[1] <= windowSeconds * 1000

\* C5 (as claimed): when an accepted event is added to a window and both
\* windows lie within windowSeconds, the rate does not go down (both variants).
C5_Original ==
    [][ ( /\ Len(stepTimestamps') = Len(stepTimestamps) + 1
          /\ InWindow(stepTimestamps') )
        => RateLe(cadenceOf(stepTimestamps), cadenceOf(stepTimestamps')) ]_vars

\* C5 (amended): the density-based rate (variant 2) never goes down when
\* events are added to a window; the span-based rate (variant 1) never goes
\* down when events are added between the first and the last event, that is
\* with the span held equal (an event added after the last one can lower it).
C5_Monotone ==
    InWindow(stepTimestamps) =>
        \A es \in SubWindows(stepTimestamps) :
            LET s == Stamps(es) IN
            ( \/ variant = 2
              \/ /\ Len(s) >= 2
                 /\ s[1] = stepTimestamps[1]
                 /\ Last(s) = Last(stepTimestamps) )
            => RateLe(cadenceOf(s), cadenceOf(stepTimestamps))

\* a window of three events, whose middle event raises the rate
C5_Witness ==
    /\ Len(stepTimestamps) = 3
    /\ InWindow(stepTimestamps)
    /\ RateLt(cadenceOf(<<stepTimestamps[1], stepTimestamps[3]>>),
              cadenceOf(stepTimestamps))

\* C6: the rate a tick computes is a finite number >= 0, whatever the window
\* holds (no event, one event, several), and it is exactly 0 when the pruned
\* window is empty.
C6_FiniteRate ==
    lastOp = "tick" =>
        /\ IsFinite(Rate)
        /\ Rate[1] >= 0
        /\ (stepTimestamps = <<>> => Rate = Zero)

\* a tick of the span-based variant over a window of exactly one event
C6_Witness ==
    /\ lastOp = "tick"
    /\ variant = 1
    /\ Len(stepTimestamps) = 1
    /\ Rate = <<12, 1>>

\* C7: a tick at time now leaves in stepTimestamps exactly the entries that
\* were in [now - windowSeconds*1000, now], in their order: what is left is a
\* suffix of the old window, all of it in the interval, and every entry
\* before that suffix is older than the interval.
C7_PruneExact ==
    [][ lastOp' = "tick" =>
          LET windowStart == now - windowSeconds * 1000 IN
          /\ \A i \in 1..Len(stepTimestamps') :
                windowStart <= stepTimestamps'[i] /\ stepTimestamps'[i] <= now
          /\ \E k \in 0..Len(stepTimestamps) :
                /\ stepTimestamps' = SubSeq(stepTimestamps, k + 1, Len(stepTimestamps))
                /\ \A i \in 1..k : stepTimestamps[i] < windowStart ]_vars

\* a tick that dropped one of two accepted steps and kept the one exactly
\* windowSeconds old
C7_Witness ==
    /\ lastOp = "tick"
    /\ Len(Accepted) = 2
    /\ stepTimestamps = <<now - windowSeconds * 1000>>

Quiet == Accepted = <<>>

\* C8: right after resetAll the event window is empty and cadenceHistory is
\* historyLength null slots; and a tick that runs while no step has been
\* accepted since the reset computes 0.
C8_Reset ==
    /\ lastOp = "resetAll" =>
          /\ stepTimestamps = <<>>
          /\ Len(cadenceHistory) = historyLength
          /\ \A i \in 1..Len(cadenceHistory) : cadenceHistory[i] = Null
    /\ (lastOp = "tick" /\ Quiet) => Rate = Zero

\* the first tick after a reset that cleared a window holding a step still
\* inside windowSeconds
C8_Witness ==
    /\ lastOp = "tick"
    /\ Quiet
    /\ pushed = <<Some(Zero)>>
    /\ lastStepTs > 0
    /\ now - lastStepTs < windowSeconds * 1000

\* C9: cadenceHistory never holds more than historyLength slots; it is the
\* last historyLength of the null slots followed by the values pushed since
\* construction or the last reset, so after historyLength + k pushes it holds
\* the last historyLength pushed values, oldest first.
C9_History ==
    /\ Len(cadenceHistory) <= historyLength
    /\ LET all == emptyHistory \o pushed
       IN cadenceHistory = SubSeq(all, Len(all) - historyLength + 1, Len(all))
    /\ Len(pushed) >= historyLength =>
          cadenceHistory = SubSeq(pushed, Len(pushed) - historyLength + 1, Len(pushed))

\* two pushes more than the buffer holds, of values that differ
C9_Witness ==
    /\ Len(pushed) = historyLength + 2
    /\ cadenceHistory[1] = pushed[3]
    /\ pushed[1] # pushed[3]

\* C10 (as claimed): a devicemotion event whose accelerationIncludingGravity
\* is absent, or present without x, y, z, changes none of gravity,
\* lastFiltered, prevFiltered, lastPeakTime, lastStepTs and stepTimestamps.
C10_Original ==
    [][ (\E ev \in Malformed : HandleMotion(ev))
        => UNCHANGED <<gravity, lastFiltered, prevFiltered, lastPeakTime,
                       lastStepTs, stepTimestamps>> ]_vars

\* the ascending upper bounds of the bands and the labels, the last unbounded
BandBounds ==
    IF variant = 1
    THEN <<THRESHOLD_SONG1_END, THRESHOLD_TRANS1_END, THRESHOLD_SONG2_END,
           THRESHOLD_TRANS2_END>>
    ELSE <<THRESHOLD_STATIONARY, THRESHOLD_FAST>>
BandLabels ==
    IF variant = 1
    THEN <<"song1", "trans1", "song2", "trans2", "song3">>
    ELSE <<"stationary", "walking", "fast">>
\* band i is the half-open interval [BandBounds[i-1], BandBounds[i]),
\* from 0 for the first and unbounded for the last
InBand(r, i) ==
    /\ (i > 1 => RateAtLeast(r, BandBounds[i - 1]))
    /\ (i <= Len(BandBounds) => RateBelow(r, BandBounds[i]))

\* C11: the label presented for a rate r >= 0 is the label of the one band
\* [b_(i-1), b_i) that holds r: exactly one band holds r, it is the first
\* whose upper bound exceeds r (the last band if none does), and a rate equal
\* to a bound is in the higher band.
C11_Bands ==
    (lastOp = "tick" /\ pushed # <<>>) =>
        /\ Cardinality({i \in 1..Len(BandLabels) : InBand(Rate, i)}) = 1
        /\ \A i \in 1..Len(BandLabels) :
              InBand(Rate, i) =>
                 /\ ui.label = BandLabels[i]
                 /\ \A j \in 1..(i - 1) : ~RateBelow(Rate, BandBounds[j])

\* a rate equal to the last bound of variant 1, presented as the last band
C11_Witness ==
    /\ lastOp = "tick"
    /\ variant = 1
    /\ pushed # <<>>
    /\ Rate = <<THRESHOLD_TRANS2_END, 1>>
    /\ ui.label = "song3"

\* C12: the presented state is "uninitialized" (text '--', its own label)
\* exactly when no tick has run since construction or since the last resetAll;
\* once a tick has run the label is classify of the rate that tick computed
\* and the text is a number; the uninitialized label is not the label of the
\* zero-rate band; right after resetAll the presented state is uninitialized.
C12_Uninitialized ==
    /\ (ui.text = Null) <=> (pushed = <<>>)
    /\ (ui.label = "initializing") <=> (pushed = <<>>)
    /\ pushed # <<>> => ui.label = classify(Rate)
    /\ classify(Zero) # "initializing"
    /\ lastOp = "resetAll" => (ui.text = Null /\ ui.label = "initializing")

\* a tick that computed the rate 0 after steps were attempted: the number 0
\* and the zero-rate band are shown, not the uninitialized state
C12_Witness ==
    /\ lastOp = "tick"
    /\ Len(pushed) = 1
    /\ Rate = Zero
    /\ calls # <<>>
    /\ stepTimestamps = <<>>
    /\ ui.text = Some(Zero)
    /\ ui.label = classify(Zero)

CallTimes == [i \in 1..Len(calls) |-> calls[i].ts]
\* three steps were injected ExampleGap apart and the tick ran at the last
ThreeInjected ==
    /\ lastOp = "tick"
    /\ Len(calls) = 3
    /\ CallTimes = <<now - 2 * ExampleGap, now - ExampleGap, now>>

\* C13: in variant 1, a tick that leaves at least 2 events in the window
\* computes (count - 1) / ((last - first) / 60000); after three steps 1000 ms
\* apart a tick at the time of the last computes 60.
C13_Span ==
    (variant = 1 /\ lastOp = "tick") =>
        /\ Len(stepTimestamps) >= 2 =>
              Rate = Frac((Len(stepTimestamps) - 1) * 60000,
                          Last(stepTimestamps) - stepTimestamps[1])
        /\ ThreeInjected => Rate = Frac(60000, ExampleGap)

\* steps at 1000, 2000, 3000 all in the window, tick at 3000: 60
C13_Witness ==
    /\ variant = 1
    /\ ThreeInjected
    /\ stepTimestamps = CallTimes
    /\ Last(stepTimestamps) - stepTimestamps[1] = 2000
    /\ Rate = <<60, 1>>

\* C14 (as claimed): in variant 2 a tick computes (count / windowSeconds) * 60
\* for the count of events left in the window, 0 and 1 included, and after
\* three steps injected at 0, 1000, 2000 a tick at 2000 computes 36.
C14_Original ==
    (variant = 2 /\ lastOp = "tick") =>
        /\ Rate = Frac(Len(stepTimestamps) * 60, windowSeconds)
        /\ ThreeInjected => Rate = <<36, 1>>

\* the linear acceleration a - g, per axis and as a magnitude
Residual(a, g) == [i \in 1..3 |-> NumSub(a[i], g[i])]
ResidualMag(a, g) ==
    magnitude(Residual(a, g)[1], Residual(a, g)[2], Residual(a, g)[3])

\* C15: an update with the sample s leaves, on every axis, alpha = 8/10 of the
\* error it found (s - g' = alpha * (s - g)), so g' lies between g and s and does
\* not pass s, and the magnitude output |s - g'| is 8/10 of |s - g|; when the
\* sample before was s too, |s - g| is the previous output and the new output
\* is not larger.  Repeated, the error is alpha^k times the first: it tends to 0.
C15_Contraction ==
    [][ \A s \in FilterInputs :
          Feed(s) =>
            /\ \A i \in 1..3 :
                  /\ 10 * (s[i][2] - gravity'[i][2])
                        = alphaTenths * (s[i][2] - gravity[i][2])
                  /\ (gravity[i][2] <= s[i][2]) =>
                        (gravity[i][2] <= gravity'[i][2] /\ gravity'[i][2] <= s[i][2])
                  /\ (gravity[i][2] >= s[i][2]) =>
                        (gravity[i][2] >= gravity'[i][2] /\ gravity'[i][2] >= s[i][2])
            /\ lastFiltered' = ResidualMag(s, gravity')
            /\ 10 * lastFiltered'[2] = alphaTenths * ResidualMag(s, gravity)[2]
            /\ (lastFiltered = ResidualMag(s, gravity)) =>
                  NumLe(lastFiltered', lastFiltered)
      ]_vars

\* the sample Along(1) fed three times from gravity 0: the error is
\* (4/5)^3 of the sample, and the outputs were 4/5, 16/25, 64/125 of |s|
C15_Witness ==
    /\ lastOp = "handleMotion"
    /\ Len(fed) = 3
    /\ \A i \in 1..3 : 125 * (Along(1)[i][2] - gravity[i][2]) = 64 * Along(1)[i][2]
    /\ fed = <<Num(4 * FilterUnit), Num((16 * FilterUnit) \div 5),
               Num((64 * FilterUnit) \div 25)>>

\* the values the detector compares: the initial 0, 0 of prevFiltered and
\* lastFiltered, then the magnitudes computed
Magnitudes(f) == <<Num(0), Num(0)>> \o f
NonIncreasing(m) == \A i \in 1..(Len(m) - 1) : NumLe(m[i + 1], m[i])
StrictlyIncreasing(m) == \A i \in 1..(Len(m) - 1) : NumLt(m[i], m[i + 1])
\* handleMotion has just appended a timestamp to the window
MotionRecorded ==
    /\ lastOp' = "handleMotion"
    /\ Len(stepTimestamps') = Len(stepTimestamps) + 1

\* C16 (as claimed): handleMotion records an event only when the previous
\* magnitude is a local maximum (prev2 < prev, current <= prev) above
\* PEAK_THRESHOLD, more than MIN_STEP_INTERVAL after lastPeakTime (and, in
\* variant 1, prev - prev2 > MIN_PEAK_PROMINENCE), where prev2 and prev may be
\* the initial values; so none is recorded while the magnitudes computed so
\* far are non-increasing or strictly increasing.
C16_Original ==
    [][ MotionRecorded =>
          LET m == Magnitudes(fed')
              n == Len(m)
          IN /\ NumLt(m[n - 2], m[n - 1])
             /\ NumLe(m[n], m[n - 1])
             /\ NumGt(m[n - 1], Num(PEAK_THRESHOLD))
             /\ now - lastPeakTime > MIN_STEP_INTERVAL
             /\ variant = 1 => NumGt(NumSub(m[n - 1], m[n - 2]), Num(MIN_PEAK_PROMINENCE))
             /\ ~NonIncreasing(fed')
             /\ ~StrictlyIncreasing(fed')
      ]_vars

\* C17 (as claimed): whenever handleMotion accepts a peak (lastPeakTime = now,
\* onStep(now) called), now is appended to the window in that same callback,
\* whatever manual steps came before.
C17_Original ==
    [][ (lastOp' = "handleMotion" /\ Len(calls') = Len(calls) + 1) =>
          /\ lastPeakTime' = now
          /\ stepTimestamps' = Append(stepTimestamps, now)
      ]_vars

\* C18: resetAll changes only the window, the history and the presented
\* state: gravity, lastFiltered, prevFiltered, lastPeakTime and lastStepTs keep
\* their values; so a manual step less than MIN_STEP_INTERVAL after the last
\* accepted one is rejected, a reset in between or not.
C18_ResetFrame ==
    [][ /\ lastOp' = "resetAll" =>
              /\ UNCHANGED <<gravity, lastFiltered, prevFiltered, lastPeakTime,
                             lastStepTs>>
              /\ stepTimestamps' = <<>>
              /\ cadenceHistory' = emptyHistory
              /\ ui'.label = "initializing"
        /\ (lastOp' = "simulateStep" /\ now - lastStepTs < MIN_STEP_INTERVAL) =>
              UNCHANGED <<stepTimestamps, lastStepTs>>
        /\ (lastOp = "resetAll" /\ lastOp' = "simulateStep"
                /\ now - lastStepTs < MIN_STEP_INTERVAL) =>
              stepTimestamps' = <<>>
      ]_vars

\* after a reset, the only step tried was rejected against a step accepted
\* before the reset, by a sample-driven filter state the reset left alone
C18_Witness ==
    /\ lastOp = "simulateStep"
    /\ Len(calls) = 1
    /\ ~calls[1].ok
    /\ calls[1].last >= MIN_STEP_INTERVAL
    /\ calls[1].last = lastStepTs
    /\ stepTimestamps = <<>>
    /\ lastFiltered # Num(0)

\* C19: in variant 1 a window of 2 or more events spans at least
\* MIN_STEP_INTERVAL > 0 ms, so computeCadence never takes its
\* durationMinutes <= 0 branch and a tick that leaves 2 or more events
\* computes a rate above 0.
C19_SpanPositive ==
    (variant = 1 /\ Len(stepTimestamps) >= 2) =>
        /\ MIN_STEP_INTERVAL > 0
        /\ Last(stepTimestamps) - stepTimestamps[1] >= MIN_STEP_INTERVAL
        /\ lastOp = "tick" => (Rate # Zero /\ Rate[1] > 0 /\ IsFinite(Rate))

\* a tick over two events exactly MIN_STEP_INTERVAL apart: 60000 / 300
C19_Witness ==
    /\ variant = 1
    /\ lastOp = "tick"
    /\ Len(stepTimestamps) = 2
    /\ stepTimestamps[2] - stepTimestamps[1] = MIN_STEP_INTERVAL
    /\ Rate = Frac(60000, MIN_STEP_INTERVAL)

\* C20: a tick later than windowSeconds * 1000 ms after the last accepted
\* event finds the window empty, computes 0, presents 0 with the lowest band
\* and pushes 0 into the history; when events stop and the timer keeps firing,
\* the rate eventually is 0 and stays 0.
C20_ReturnsToZero ==
    /\ []( (lastOp = "tick" /\ now > lastStepTs + windowSeconds * 1000) =>
             /\ stepTimestamps = <<>>
             /\ Rate = Zero
             /\ ui = [text |-> Some(Zero), label |-> BandLabels[1]]
             /\ Last(cadenceHistory) = Some(Zero) )
    /\ <>[]( /\ pushed # <<>>
             /\ Rate = Zero
             /\ stepTimestamps = <<>>
             /\ ui.label = BandLabels[1] )

\* a tick computed a rate above 0, and a tick more than windowSeconds after
\* the last accepted step computed 0
C20_Witness ==
    /\ lastOp = "tick"
    /\ lastStepTs > 0
    /\ now > lastStepTs + windowSeconds * 1000
    /\ \E i \in 1..Len(pushed) : RateAtLeast(pushed[i][1], 1)
    /\ Rate = Zero
    /\ stepTimestamps = <<>>

=============================================================================
